---- MODULE Spec2Model ----
(***************************************************************************)
(* Entity extraction notebook (BERT question answering): the best answer   *)
(* span selection postprocess / find_best_entity_window, get_best_entity   *)
(* and their helpers.                                                      *)
(*                                                                         *)
(* Numbers.  A numpy float array is modelled as an array of exact          *)
(* rationals with one common denominator: [num |-> <<n1, ..., nk>>,        *)
(* den |-> d] stands for <<n1/d, ..., nk/d>>.  A logit is an integer k     *)
(* that stands for the real number k * ln 2, so that np.exp of it is the   *)
(* integer 2^k.  Rounding, overflow and underflow of IEEE floats are not   *)
(* modelled.  Indices are 0-based as in the code; TLA+ sequences are       *)
(* 1-based, hence the "+ 1" at every element access.                       *)
(***************************************************************************)
EXTENDS Integers, Sequences, FiniteSets, TLC

VARIABLES op, fw, pp, pq, gb, ra, metric, loader, pose

vars == <<op, fw, pp, pq, gb, ra, metric, loader, pose>>

----------------------------------------------------------------------------
(* Bounds of the model *)

\* longest score vector handed to find_best_entity_window directly
MaxLen == 18
\* scores of a direct call are 0/MaxScore .. MaxScore/MaxScore
MaxScore == 2
\* logits are 0 .. MaxLogit (in units of ln 2)
MaxLogit == 2
\* longest logit vector handed to postprocess directly
MaxInput == 6
\* most entity tokens in a direct call of postprocess
MaxEntityTokens == 1
\* longest context string, in characters
MaxContextChars == 3
\* pixels of a segmentation mask
MaxPixels == 2
\* most calls of BinaryF1.update
MaxUpdates == 3
\* largest increase of a logit between two calls of postprocess
MaxRaise == 2

\* the frames one run of run_pose_estimation processes at most
MaxFrames == 202

(* Program constants *)

\* np.tril(score_mat, 16)
MaxAnswerSpan == 16

----------------------------------------------------------------------------
(* Arithmetic helpers *)

Min(a, b) == IF a < b THEN a ELSE b

Max(a, b) == IF a > b THEN a ELSE b

RECURSIVE SumSeq(_)
SumSeq(s) == IF s = <<>> THEN 0 ELSE Head(s) + SumSeq(Tail(s))

MaxOfSet(S) == CHOOSE x \in S : \A y \in S : y <= x

\* np.exp of a logit k * ln 2
exp(k) == 2 ^ k

----------------------------------------------------------------------------
(* Python and numpy primitives used by the code *)

\* Python's normalisation of a slice bound a for a sequence of length n
SliceBound(n, a) == IF a < 0 THEN Max(a + n, 0) ELSE Min(a, n)

\* seq[a:], the slice taken to the end of the sequence
Slice_to_end(seq, a, b) ==
    LET lo == SliceBound(Len(seq), a)
    IN  IF Len(seq) <= lo THEN <<>> ELSE SubSeq(seq, lo + 1, Len(seq))

\* seq[a:b] with 0-based, possibly negative or out-of-range bounds
Slice(seq, a, b) ==
    LET lo == SliceBound(Len(seq), a)
        hi == SliceBound(Len(seq), b)
    IN  IF hi <= lo THEN <<>> ELSE SubSeq(seq, lo + 1, hi)

\* arr.reshape((n, 1)) or arr.reshape((1, n)) of a 1-D array of `size` items:
\* the length of the n-axis, or -1 where numpy raises ValueError
\* (n = -1 asks numpy to infer the axis; any other negative n is rejected)
reshape(size, n) ==
    IF n = -1 THEN size
    ELSE IF n < 0 \/ n # size THEN -1
    ELSE n

\* matmul with the row and the column exchanged (the end scores taken as
\* the column, the start scores as the row)
matmul_transposed(a, b) ==
    [rows |-> Len(a.num), cols |-> Len(b.num), den |-> a.den * b.den,
     data |-> [k \in 0 .. (Len(a.num) * Len(b.num) - 1) |->
                 b.num[(k \div Len(b.num)) + 1] * a.num[(k % Len(b.num)) + 1]]]

\* np.matmul of a (rows x 1) column a and a (1 x cols) row b: the matrix of
\* all products, stored flat in row-major order, cell (i, j) at i * cols + j
matmul(a, b) ==
    [rows |-> Len(a.num), cols |-> Len(b.num), den |-> a.den * b.den,
     data |-> [k \in 0 .. (Len(a.num) * Len(b.num) - 1) |->
                 a.num[(k \div Len(b.num)) + 1] * b.num[(k % Len(b.num)) + 1]]]

\* triu left out: no cell is reset
triu_missing(m) == m

\* np.triu(m): cells below the main diagonal (column < row) become 0
triu(m) ==
    [m EXCEPT !.data = [k \in DOMAIN m.data |->
        IF (k % m.cols) >= (k \div m.cols) THEN m.data[k] ELSE 0]]

\* tril one diagonal too wide
tril_wider(m, d) ==
    [m EXCEPT !.data = [k \in DOMAIN m.data |->
        IF (k % m.cols) - (k \div m.cols) <= d + 1 THEN m.data[k] ELSE 0]]

\* np.tril(m, d): cells above the d-th diagonal (column - row > d) become 0
tril(m, d) ==
    [m EXCEPT !.data = [k \in DOMAIN m.data |->
        IF (k % m.cols) - (k \div m.cols) <= d THEN m.data[k] ELSE 0]]

\* argmax that returns the last index of the largest cell
argmax_last(data) ==
    LET top == MaxOfSet({data[k] : k \in DOMAIN data})
    IN  CHOOSE k \in DOMAIN data :
            data[k] = top /\ \A h \in DOMAIN data : h > k => data[h] # top

\* m.flatten().argmax(): the first index of the largest cell
argmax(data) ==
    LET top == MaxOfSet({data[k] : k \in DOMAIN data})
    IN  CHOOSE k \in DOMAIN data :
            data[k] = top /\ \A h \in DOMAIN data : h < k => data[h] # top

\* an argmax that fails on a one-cell matrix as well
no_argmax_below_two(m) == m.rows * m.cols <= 1

\* m.flatten().argmax() raises ValueError (attempt to get an argmax of an
\* empty sequence) when m has no cell
no_argmax(m) == m.rows * m.cols = 0

----------------------------------------------------------------------------
(* find_best_entity_window *)

NoWindow ==
    [raised |-> "none", max_score |-> [num |-> 0, den |-> 1],
     max_s |-> 0, max_e |-> 0]

find_best_entity_window(start_score, end_score, context_start_idx, context_end_idx) ==
    LET context_len == context_end_idx - context_start_idx
        s == Slice(start_score.num, context_start_idx, context_end_idx)
        e == Slice(end_score.num, context_start_idx, context_end_idx)
        rows == reshape(Len(s), context_len)
        cols == reshape(Len(e), context_len)
        score_mat == tril(triu(matmul([num |-> s, den |-> start_score.den],
                                      [num |-> e, den |-> end_score.den])),
                          MaxAnswerSpan)
        flat == argmax(score_mat.data)
    IN  IF rows = -1 \/ cols = -1 \/ no_argmax(score_mat)
        THEN [NoWindow EXCEPT !.raised = "ValueError"]
        ELSE [raised |-> "none",
              max_score |-> [num |-> score_mat.data[flat], den |-> score_mat.den],
              max_s |-> flat \div score_mat.cols,
              max_e |-> flat % score_mat.cols]

\* a call of find_best_entity_window as the state records it: the arguments
\* and the outcome r
WindowRecord(start_score, end_score, context_start_idx, context_end_idx, r) ==
    [called |-> TRUE, start_score |-> start_score, end_score |-> end_score,
     context_start_idx |-> context_start_idx,
     context_end_idx |-> context_end_idx,
     raised |-> r.raised, max_score |-> r.max_score,
     max_s |-> r.max_s, max_e |-> r.max_e]

WindowFrame(start_score, end_score, context_start_idx, context_end_idx) ==
    WindowRecord(start_score, end_score, context_start_idx, context_end_idx,
                 find_best_entity_window(start_score, end_score,
                                         context_start_idx, context_end_idx))

----------------------------------------------------------------------------
(* postprocess *)

\* get_score without the division by the sum
get_score_unnormalised(logits) ==
    [num |-> [i \in 1 .. Len(logits) |-> exp(logits[i])], den |-> 1]

\* get_score that divides by the largest term in place of the sum
get_score_by_max(logits) ==
    LET out == [i \in 1 .. Len(logits) |-> exp(logits[i])]
    IN  [num |-> out,
         den |-> IF logits = <<>> THEN 0
                 ELSE MaxOfSet({out[i] : i \in 1 .. Len(logits)})]

\* get_score: softmax of a logit vector, np.exp(logits) / np.exp(logits).sum()
get_score(logits) ==
    LET out == [i \in 1 .. Len(logits) |-> exp(logits[i])]
    IN  [num |-> out, den |-> SumSeq(out)]

\* get_score with np.exp(logits, out=logits): the argument holds the
\* exponentials afterwards
logits_after_exp_in_place(logits) ==
    [i \in 1 .. Len(logits) |-> exp(logits[i])]

\* the argument of get_score after the call: np.exp(logits) and the division
\* allocate their results, and the slices, reshape, matmul, triu and tril of
\* find_best_entity_window work on those, so the caller's array is as it was
logits_after_get_score(logits) == logits

\* convert_to_text that reads the start offset of the last token as well
convert_to_text_start_twice(context_tokens_start_end, max_start, max_end) ==
    IF max_start >= Len(context_tokens_start_end)
       \/ max_end >= Len(context_tokens_start_end)
    THEN [raised |-> "IndexError", max_start |-> 0, max_end |-> 0]
    ELSE [raised |-> "none",
          max_start |-> context_tokens_start_end[max_start + 1][1],
          max_end |-> context_tokens_start_end[max_end + 1][1]]

\* context_tokens_start_end[max_start][0], context_tokens_start_end[max_end][1]:
\* IndexError when an index is not inside the table
convert_to_text(context_tokens_start_end, max_start, max_end) ==
    IF max_start >= Len(context_tokens_start_end)
       \/ max_end >= Len(context_tokens_start_end)
    THEN [raised |-> "IndexError", max_start |-> 0, max_end |-> 0]
    ELSE [raised |-> "none",
          max_start |-> context_tokens_start_end[max_start + 1][1],
          max_end |-> context_tokens_start_end[max_end + 1][2]]

\* the end of postprocess, after the call w of find_best_entity_window: an
\* error of that call propagates; otherwise the token indices are converted
\* and (max_score, max_start, max_end) returned
postprocess_return(context_tokens_start_end, w) ==
    LET t == convert_to_text(context_tokens_start_end, w.max_s, w.max_e)
    IN  IF w.raised # "none"
        THEN [raised |-> w.raised, max_score |-> w.max_score,
              max_start |-> 0, max_end |-> 0, window |-> w]
        ELSE [raised |-> t.raised, max_score |-> w.max_score,
              max_start |-> t.max_start, max_end |-> t.max_end, window |-> w]

\* postprocess with a context window that starts at the [SEP] after the
\* entity
postprocess_window_from_sep(output_start, output_end, entity_tokens, context_tokens_start_end, input_size) ==
    postprocess_return(context_tokens_start_end,
        WindowFrame(get_score(output_start), get_score(output_end),
                    Len(entity_tokens) + 1, input_size - 1))

\* postprocess: the outcome (raised, max_score, max_start, max_end) and, in
\* `window`, the call of find_best_entity_window it made
postprocess(output_start, output_end, entity_tokens, context_tokens_start_end, input_size) ==
    postprocess_return(context_tokens_start_end,
        WindowFrame(get_score(output_start), get_score(output_end),
                    Len(entity_tokens) + 2, input_size - 1))

\* a call of postprocess as the state records it: the arguments and the
\* outcome r
PostprocessFrame(output_start, output_end, entity_tokens, context_tokens_start_end, input_size, r) ==
    [called |-> TRUE, output_start |-> output_start, output_end |-> output_end,
     entity_tokens |-> entity_tokens,
     context_tokens_start_end |-> context_tokens_start_end,
     input_size |-> input_size,
     raised |-> r.raised, max_score |-> r.max_score,
     max_start |-> r.max_start, max_end |-> r.max_end]

----------------------------------------------------------------------------
(* Text: a string is a sequence of characters.  "I_dot" is U+0130 (capital *)
(* I with dot above), "dot_above" is U+0307 (combining dot above).         *)

Letters == {"a", "A", "I_dot", "i", "dot_above"}

IsSpace(c) == c = " "

IsPunct(c) == c = "?"

\* str.lower() of one character: U+0130 lowers to the two characters
\* U+0069 U+0307, every other character to one character
lower_char(c) ==
    IF c = "A" THEN <<"a">>
    ELSE IF c = "I_dot" THEN <<"i", "dot_above">>
    ELSE <<c>>

\* str.lower(): the characters lowered one by one (the text is halved at
\* each step to keep the recursion shallow)
RECURSIVE lower(_)
lower(text) ==
    IF text = <<>> THEN <<>>
    ELSE IF Len(text) = 1 THEN lower_char(text[1])
    ELSE lower(SubSeq(text, 1, Len(text) \div 2))
            \o lower(SubSeq(text, Len(text) \div 2 + 1, Len(text)))

\* position i (1-based) starts a token: a punctuation mark, or a letter that
\* follows the start of the text, a space or a punctuation mark
TokenStart(text, i) ==
    /\ ~IsSpace(text[i])
    /\ \/ IsPunct(text[i])
       \/ i = 1
       \/ IsSpace(text[i - 1])
       \/ IsPunct(text[i - 1])

\* the last position (1-based) of the token that starts at i
RECURSIVE TokenEnd(_, _)
TokenEnd(text, i) ==
    IF IsPunct(text[i]) \/ i = Len(text) THEN i
    ELSE IF IsSpace(text[i + 1]) \/ IsPunct(text[i + 1]) THEN i
    ELSE TokenEnd(text, i + 1)

\* the token starts among positions i .. j, in text order (the range is
\* halved at each step to keep the recursion shallow)
RECURSIVE TokenStarts(_, _, _)
TokenStarts(text, i, j) ==
    IF i > j THEN <<>>
    ELSE IF i = j THEN (IF TokenStart(text, i) THEN <<i>> ELSE <<>>)
    ELSE TokenStarts(text, i, (i + j) \div 2)
            \o TokenStarts(text, (i + j) \div 2 + 1, j)

\* tokens.text_to_tokens: the tokens of a text (each identified by its
\* characters) and, per token, its half-open character range (start, end)
text_to_tokens(text) ==
    LET starts == TokenStarts(text, 1, Len(text))
    IN  [tokens |-> [k \in 1 .. Len(starts) |->
                        SubSeq(text, starts[k], TokenEnd(text, starts[k]))],
         spans |-> [k \in 1 .. Len(starts) |->
                        <<starts[k] - 1, TokenEnd(text, starts[k])>>]]

\* vocab["[CLS]"], vocab["[SEP]"]
cls_token == <<"[CLS]">>

sep_token == <<"[SEP]">>

\* prepare_input: the tensors fed to the model
prepare_input(entity_tokens, context_tokens) ==
    LET input_ids == <<cls_token>> \o entity_tokens \o <<sep_token>>
                       \o context_tokens \o <<sep_token>>
    IN  [input_ids |-> input_ids,
         attention_mask |-> [i \in 1 .. Len(input_ids) |-> 1],
         token_type_ids |-> [i \in 1 .. (Len(entity_tokens) + 2) |-> 0]
                              \o [i \in 1 .. (Len(context_tokens) + 1) |-> 1],
         position_ids |-> [i \in 1 .. Len(input_ids) |-> i - 1]]

\* template
template ==
    << <<"b", "u", "i", "l", "d", "i", "n", "g">>,
       <<"c", "o", "m", "p", "a", "n", "y">>,
       <<"p", "e", "r", "s", "o", "n", "s">>,
       <<"c", "i", "t", "y">>,
       <<"s", "t", "a", "t", "e">>,
       <<"h", "e", "i", "g", "h", "t">>,
       <<"f", "l", "o", "o", "r">>,
       <<"a", "d", "d", "r", "e", "s", "s">> >>

\* entity_to_find = field + "?"
entity_to_find(field) == field \o <<"?">>

----------------------------------------------------------------------------
(* get_best_entity *)

\* what get_best_entity computes before it calls the model
get_best_entity_input(entity, context) ==
    LET c == text_to_tokens(lower(context))
        e == text_to_tokens(lower(entity))
    IN  [context_tokens |-> c.tokens,
         context_tokens_end |-> c.spans,
         entity_tokens |-> e.tokens,
         network_input |-> prepare_input(e.tokens, c.tokens),
         input_size |-> Len(c.tokens) + Len(e.tokens) + 3]

\* the end of get_best_entity, after the call of postprocess:
\* return context[score_start_end[1]:score_start_end[2]], score_start_end[0]
get_best_entity_return(context, score_start_end) ==
    [raised |-> score_start_end.raised,
     entity |-> IF score_start_end.raised = "none"
                THEN Slice(context, score_start_end.max_start,
                           score_start_end.max_end)
                ELSE <<>>,
     score |-> score_start_end.max_score,
     post |-> score_start_end]

\* get_best_entity, given its inputs inp as computed by get_best_entity_input
\* and the model's outputs output_s and output_e: the outcome (raised,
\* entity, score) and, in `post`, the call of postprocess
get_best_entity(inp, context, output_s, output_e) ==
    get_best_entity_return(context,
        postprocess(output_s, output_e, inp.entity_tokens,
                    inp.context_tokens_end, inp.input_size))

----------------------------------------------------------------------------
(* run_analyze_entities *)

\* confidence_threshold = 0.4
confidence_threshold == [num |-> 2, den |-> 5]

\* score > confidence_threshold
above_threshold(score) ==
    score.num * confidence_threshold.den > confidence_threshold.num * score.den

\* score >= confidence_threshold
reaches_threshold(score) ==
    score.num * confidence_threshold.den >= confidence_threshold.num * score.den

\* f"{score:.2f}": the score rounded to hundredths (half to even), as the
\* number of hundredths
format_2f(score) ==
    LET q == (score.num * 100) \div score.den
        twice == 2 * ((score.num * 100) % score.den)
    IN  IF twice > score.den \/ (twice = score.den /\ q % 2 = 1)
        THEN q + 1
        ELSE q

\* the guards with the second one rejecting 380 characters as well
context_error_from_380(context) ==
    IF Len(context) = 0 THEN "Error: Empty context or outside paragraphs"
    ELSE IF Len(context) >= 380 THEN "Error: The context is too long"
    ELSE "none"

\* the guards of run_analyze_entities: the message printed before the early
\* return, or "none" when the context is accepted
context_error(context) ==
    IF Len(context) = 0 THEN "Error: Empty context or outside paragraphs"
    ELSE IF Len(context) > 380 THEN "Error: The context is too long"
    ELSE "none"

\* input_shape[1] = Dimension(1, 384): the compiled model takes 1 .. 384
\* input positions and raises on any other input
compiled_model_accepts(network_input) ==
    Len(network_input.input_ids) \in 1 .. 384

\* the loop body with the record inserted at the front of the list
extract_prepended(extract, field, entity, score) ==
    IF reaches_threshold(score)
    THEN <<[Entity |-> entity, Type |-> field,
            Score |-> format_2f(score)]>> \o extract
    ELSE extract

\* the loop body after get_best_entity returned (entity, score): the
\* extraction list after the field
extract_after(extract, field, entity, score) ==
    IF reaches_threshold(score)
    THEN Append(extract, [Entity |-> entity, Type |-> field,
                          Score |-> format_2f(score)])
    ELSE extract

----------------------------------------------------------------------------
(* BinaryF1: the F1 metric of a binary segmentation.  An image is its      *)
(* sequence of pixels; a model output is one integer logit per pixel.      *)

\* sigmoid(x).round(): sigmoid(x) > 1/2 exactly when x > 0, and 1/2 rounds
\* (half to even) to 0
prediction_of(output) ==
    [i \in 1 .. Len(output) |-> IF output[i] > 0 THEN 1 ELSE 0]

\* the three sums of update for a label and an output: np.sum(label),
\* np.sum(prediction) and the number of pixels that are 1 in both
update_sums(label, output) ==
    [y_true |-> SumSeq(label),
     y_pred |-> SumSeq(prediction_of(output)),
     correct_true |->
         SumSeq([i \in 1 .. Len(label) |->
                    (IF label[i] = prediction_of(output)[i] THEN 1 ELSE 0)
                        * (IF label[i] = 1 THEN 1 ELSE 0)])]

NoSums == [y_true |-> 0, y_pred |-> 0, correct_true |-> 0]

NoAverage == [raised |-> "none", f1 |-> [kind |-> "none", num |-> 0, den |-> 1]]

\* BinaryF1.__init__; `numpy` tells whether the three counters are numpy
\* scalars (after an update) or Python ints (as assigned by __init__ and
\* reset).  Beside the attributes: `updates` counts the calls of update,
\* `last` holds the sums of the most recent one, `since` the sums and
\* `since_updates` the number of the updates since construction or the last
\* reset, `called` the last method called, `read` and `got` the last property
\* read and what value returned, `avg` what avg_value returned
BinaryF1_init ==
    [y_true |-> 0, y_pred |-> 0, correct_true |-> 0, numpy |-> FALSE,
     updates |-> 0, last |-> NoSums, since |-> NoSums, since_updates |-> 0,
     called |-> "__init__", read |-> "none", got |-> <<>>, avg |-> NoAverage]

\* reset that leaves correct_true as it is
BinaryF1_reset_two_counters(self) ==
    [self EXCEPT !.y_true = 0, !.y_pred = 0, !.numpy = FALSE]

\* BinaryF1.reset
BinaryF1_reset(self) ==
    [self EXCEPT !.y_true = 0, !.y_pred = 0, !.correct_true = 0,
                 !.numpy = FALSE]

\* a / b for numpy scalars: a fraction, or for b = 0 nan (a = 0) or inf
\* (a > 0), with a warning and no exception
np_divide(a, b) ==
    IF b = 0
    THEN [kind |-> IF a = 0 THEN "nan" ELSE "inf", num |-> 0, den |-> 1]
    ELSE [kind |-> "number", num |-> a, den |-> b]

\* (2 * precision * recall) / (precision + recall) for floats: nan when an
\* operand is nan or when precision + recall = 0 (0 / 0).  An operand inf
\* does not occur, since correct_true > 0 needs y_true > 0 and y_pred > 0
f1_of(precision, recall) ==
    IF precision.kind # "number" \/ recall.kind # "number"
    THEN [kind |-> "nan", num |-> 0, den |-> 1]
    ELSE IF precision.num * recall.den + recall.num * precision.den = 0
    THEN [kind |-> "nan", num |-> 0, den |-> 1]
    ELSE [kind |-> "number",
          num |-> (2 * precision.num * recall.num)
                     * (precision.den * recall.den),
          den |-> (precision.den * recall.den)
                     * (precision.num * recall.den
                           + recall.num * precision.den)]

\* BinaryF1.avg_value: with Python ints (all 0) the first division raises
\* ZeroDivisionError
BinaryF1_avg_value(self) ==
    IF ~self.numpy
    THEN [raised |-> "ZeroDivisionError", f1 |-> NoAverage.f1]
    ELSE [raised |-> "none",
          f1 |-> f1_of(np_divide(self.correct_true, self.y_true),
                       np_divide(self.correct_true, self.y_pred))]

\* BinaryF1.value: {self._name: [0, 0]}
BinaryF1_value(self) == <<0, 0>>

\* binary masks and model outputs of MaxPixels pixels
Labels == [1 .. MaxPixels -> {0, 1}]

Outputs == [1 .. MaxPixels -> {-1, 0, 1}]

----------------------------------------------------------------------------
(* KitsDataLoader.  A mask file <dir>/case_<name>/segmentation_frames/      *)
(* <frame>.png is the record [case |-> name, frame |-> frame], name being   *)
(* the sequence of characters after "case_"; a directory is the set of the  *)
(* mask files under it.                                                     *)

\* val_indices
val_indices ==
    {7, 10, 14, 15, 30, 60, 71, 74, 75, 81, 92, 93,
     106, 115, 117, 119, 134, 161, 192, 196, 203}

\* f"{i:05d}" for 0 <= i < 100000: five digits, zero-padded
format_05d(i) == [k \in 1 .. 5 |-> (i \div (10 ^ (5 - k))) % 10]

\* val_cases, each without its prefix "case_"
val_cases == {format_05d(i) : i \in val_indices}

\* the mask files that may exist in a directory, in the order of their
\* paths: case_00007 is a validation case, case_00008 and case_7 are not
MaskFiles ==
    << [case |-> <<0, 0, 0, 0, 7>>, frame |-> 0],
       [case |-> <<0, 0, 0, 0, 8>>, frame |-> 0],
       [case |-> <<7>>, frame |-> 0] >>

\* sorted(paths): the paths in path order
sorted(paths) == SelectSeq(MaskFiles, LAMBDA m : m \in paths)

Directories == {"kits19_frames_1", "kits19_frames"}

\* KitsDataLoader.__init__(basedir) with the global BASEDIR and the file
\* system `files`: the exception raised and the attributes assigned
KitsDataLoader_init(BASEDIR, basedir, files) ==
    IF Len(sorted(files[BASEDIR])) = 0
    THEN [raised |-> "ValueError", self_basedir |-> "none", dataset |-> <<>>]
    ELSE [raised |-> "none", self_basedir |-> basedir,
          dataset |-> SelectSeq(sorted(files[BASEDIR]),
                                LAMBDA mask : mask.case \in val_cases)]

----------------------------------------------------------------------------
(* run_pose_estimation.  Times are whole numbers of a clock unit; a mean is *)
(* the fraction num / den.                                                  *)

\* the sum of s[i] .. s[j]
RECURSIVE np_sum(_, _, _)
np_sum(s, i, j) ==
    IF i > j THEN 0
    ELSE IF i = j THEN s[i]
    ELSE np_sum(s, i, (i + j) \div 2) + np_sum(s, (i + j) \div 2 + 1, j)

\* np.mean(processing_times) * 1000
mean_ms(processing_times) ==
    [num |-> 1000 * np_sum(processing_times, 1, Len(processing_times)),
     den |-> Len(processing_times)]

NoMean == [num |-> 0, den |-> 1]

\* the deque that lets go of the oldest entry from 200 entries on
processing_times_after_from_200(processing_times, duration) ==
    IF Len(Append(processing_times, duration)) >= 200
    THEN Tail(Append(processing_times, duration))
    ELSE Append(processing_times, duration)

\* processing_times.append(stop_time - start_time), then popleft() when the
\* deque holds more than 200 entries
processing_times_after(processing_times, duration) ==
    IF Len(Append(processing_times, duration)) > 200
    THEN Tail(Append(processing_times, duration))
    ELSE Append(processing_times, duration)

\* the exceptions a step may raise: KeyboardInterrupt, RuntimeError and one
\* that has no handler
Exceptions == {"KeyboardInterrupt", "RuntimeError", "ValueError"}

\* except KeyboardInterrupt / except RuntimeError: what is printed, "none"
\* when no clause matches
except_prints(exc) ==
    IF exc = "KeyboardInterrupt" THEN "Interrupted"
    ELSE IF exc = "RuntimeError" THEN "RuntimeError"
    ELSE "none"

\* the finally clause calling player.stop() whatever player is
finally_stop_calls_unchecked(player) == 1

\* the finally clause: the calls of player.stop() it makes
finally_stop_calls(player) == IF player # "None" THEN 1 ELSE 0

----------------------------------------------------------------------------
(* The inputs the calls are made with *)

\* stop_time - start_time of the k-th frame (k = 1, 2, ...) of a run whose
\* compiled model answers at pace `pace`
Duration(k, pace) == 1 + ((k * pace) % 5)

Paces == {1, 2}

\* cv2.waitKey(1): ESC or no key
Keys == {27, -1}

\* a vector of length n, v at position p (1-based) and b elsewhere
Peaked(n, p, v, b) == [i \in 1 .. n |-> IF i = p THEN v ELSE b]

\* score vectors of a direct call of find_best_entity_window: scores
\* 0/MaxScore .. MaxScore/MaxScore, one position at either end set apart from
\* a flat base of 0 or 1/MaxScore
ScoreVectors(n) ==
    {[num |-> Peaked(n, p, v, b), den |-> MaxScore] :
        p \in {1, n}, v \in 0 .. MaxScore, b \in 0 .. 1}

\* logit vectors the model returns: flat, or one position raised to MaxLogit
\* (softmax does not change when a constant is added to every logit)
LogitVectors(n) ==
    {Peaked(n, p, v, 0) : p \in 1 .. n, v \in {0, MaxLogit}}

\* token-span table of a context of m one-character words separated by spaces
WordSpans(m) == [k \in 1 .. m |-> <<2 * (k - 1), 2 * (k - 1) + 1>>]

\* m entity tokens
EntityTokens(m) == [k \in 1 .. m |-> <<"a">>]

\* how the arguments of a direct call of postprocess depart from a consistent
\* call: <<len(output_end) - len(output_start), input_size - len(output_start),
\*         len(context_tokens_start_end) - (number of context tokens)>>
Departures ==
    {<<0, 0, 0>>, <<1, 0, 0>>, <<-1, 0, 0>>, <<-2, 0, 0>>, <<0, 1, 0>>,
     <<0, -1, 0>>, <<0, 2, 0>>, <<0, 0, 1>>, <<0, 0, -1>>}

\* how the second of two calls of postprocess differs from the first, for
\* an input of n positions with ne entity tokens: not at all; by the start
\* logit at model-input position `at` (0-based) inside the context window
\* raised by `by`; or by the start or the end logit at a position outside
\* the window ([CLS], an entity token, either [SEP]) raised by MaxRaise
Changes(n, ne) ==
    {[kind |-> "same", vector |-> "none", at |-> 0, by |-> 0]}
        \cup {[kind |-> "raise_start", vector |-> "start", at |-> i, by |-> d] :
                 i \in (ne + 2) .. (n - 2), d \in 1 .. MaxRaise}
        \cup {[kind |-> "raise_outside", vector |-> v, at |-> i, by |-> MaxRaise] :
                 v \in {"start", "end"}, i \in (0 .. (ne + 1)) \cup {n - 1}}

\* the logit vector `vector` ("start" or "end") with the change applied
changed(logits, change, vector) ==
    IF change.vector = vector
    THEN [logits EXCEPT ![change.at + 1] = @ + change.by]
    ELSE logits

Chars == {"a", "A", "I_dot", " "}

\* all strings over Chars of length 0 .. n
Strings(n) == UNION {[1 .. k -> Chars] : k \in 0 .. n}

\* a string of n characters c
Repeat(c, n) == [i \in 1 .. n |-> c]

\* the contexts run_analyze_entities is called with: empty, blank, two
\* words, 380 punctuation marks, 381 letters
AnalyzeContexts ==
    {<<>>, <<" ">>, <<"A", " ", "a">>, Repeat("?", 380), Repeat("a", 381)}

\* a logit vector of length n with logit a at position p (1-based) and, at
\* the other positions, logits 1 and 0 whose exp sum to others_sum (as far
\* as n allows)
ThresholdLogits(n, p, a, others_sum) ==
    [i \in 1 .. n |->
        IF i = p THEN a
        ELSE IF (IF i < p THEN i ELSE i - 1) <= others_sum - (n - 1) THEN 1
        ELSE 0]

\* the outputs <<output_s, output_e>> of the compiled model for an input of
\* n positions whose context starts at position cs (0-based): flat (a low
\* score), peaked at the last context token (a high score), and one with
\* P(start) = 4/5 and P(end) = 1/2 at the first context token (the score
\* 2/5 for inputs of 5 .. 9 positions)
OracleOutputs(n, cs) ==
    { <<Peaked(n, 1, 0, 0), Peaked(n, 1, 0, 0)>>,
      <<Peaked(n, n - 1, 5, 0), Peaked(n, n - 1, 5, 0)>>,
      <<ThresholdLogits(n, cs + 1, 5, 8), ThresholdLogits(n, cs + 1, 3, 8)>> }

\* what a collaborator may raise while a field is processed: the tokenizer
\* at any time; the compiled model at any time, and always when it does not
\* accept the input
Failures(network_input) ==
    {[by |-> "tokenizer", error |-> "TokenizerError"]}
        \cup (IF compiled_model_accepts(network_input)
              THEN {[by |-> "compiled_model", error |-> "InferenceError"]}
              ELSE {[by |-> "compiled_model", error |-> "RuntimeError"]})

----------------------------------------------------------------------------
(* State: the last call of each function, its arguments and its outcome *)

NoScores == [num |-> <<>>, den |-> 1]

Init ==
    /\ op = "none"
    /\ fw = [called |-> FALSE, start_score |-> NoScores, end_score |-> NoScores,
             context_start_idx |-> 0, context_end_idx |-> 0,
             raised |-> "none", max_score |-> NoWindow.max_score,
             max_s |-> 0, max_e |-> 0]
    /\ pp = [called |-> FALSE, output_start |-> <<>>, output_end |-> <<>>,
             entity_tokens |-> <<>>, context_tokens_start_end |-> <<>>,
             input_size |-> 0,
             raised |-> "none", max_score |-> NoWindow.max_score,
             max_start |-> 0, max_end |-> 0]
    /\ pq = [called |-> FALSE,
             change |-> [kind |-> "same", vector |-> "none", at |-> 0, by |-> 0],
             output_start |-> <<>>, output_end |-> <<>>,
             raised |-> "none", max_score |-> NoWindow.max_score,
             max_start |-> 0, max_end |-> 0, max_s |-> 0, max_e |-> 0]
    /\ gb = [called |-> FALSE, entity |-> <<>>, context |-> <<>>,
             raised |-> "none", answer |-> <<>>,
             score |-> NoWindow.max_score]
    /\ ra = [pc |-> "idle", context |-> <<>>, field |-> 0, extract |-> <<>>,
             scores |-> <<>>, answers |-> <<>>, invoked |-> <<>>,
             tokenized |-> 0, input_size |-> 0,
             message |-> "none", results |-> <<>>,
             failure |-> [by |-> "none", error |-> "none"],
             raised |-> "none"]
    /\ metric = BinaryF1_init
    /\ loader = [called |-> FALSE, BASEDIR |-> "kits19_frames_1",
                 basedir |-> "kits19_frames_1",
                 files |-> [d \in Directories |-> {}],
                 raised |-> "none", self_basedir |-> "none",
                 dataset |-> <<>>]
    /\ pose = [pc |-> "idle", use_popup |-> FALSE, pace |-> 1,
               player |-> "None", frames |-> 0,
               processing_times |-> <<>>, processing_time |-> NoMean,
               completed |-> FALSE, printed |-> "none",
               exc |-> "none", failed |-> "none", where |-> "none",
               stop_calls |-> 0, windows_destroyed |-> 0,
               raised |-> "none"]

\* a direct call find_best_entity_window(start_score, end_score, cs, ce)
CallFindBestEntityWindow ==
    /\ op = "none"
    /\ \E n \in 1 .. MaxLen :
       \E start_score \in ScoreVectors(n), end_score \in ScoreVectors(n) :
       \E context_start_idx \in {0, 1}, context_end_idx \in {n - 1, n} :
          fw' = WindowFrame(start_score, end_score,
                            context_start_idx, context_end_idx)
    /\ op' = "find_best_entity_window"
    /\ UNCHANGED <<pp, pq, gb, ra, metric, loader, pose>>

\* a direct call postprocess(output_start, output_end, entity_tokens,
\* context_tokens_start_end, input_size)
CallPostprocess ==
    /\ op = "none"
    /\ \E n \in 0 .. MaxInput, ne \in 0 .. MaxEntityTokens, d \in Departures :
       \E output_start \in LogitVectors(n),
          output_end \in LogitVectors(Max(n + d[1], 0)) :
          LET input_size == Max(n + d[2], 0)
              entity_tokens == EntityTokens(ne)
              table == WordSpans(Max(input_size - ne - 3 + d[3], 0))
              r == postprocess(output_start, output_end, entity_tokens,
                               table, input_size)
          IN  /\ pp' = PostprocessFrame(output_start, output_end, entity_tokens,
                                        table, input_size, r)
              /\ fw' = r.window
    /\ op' = "postprocess"
    /\ UNCHANGED <<pq, gb, ra, metric, loader, pose>>

\* a call get_best_entity(entity, context, vocab); the compiled model returns
\* one start logit and one end logit per input position
CallGetBestEntity ==
    /\ op = "none"
    /\ \E context \in Strings(MaxContextChars) :
       \E entity \in {entity_to_find(template[1])} :
          LET inp == get_best_entity_input(entity, context)
              n == Len(inp.network_input.input_ids)
          IN  \E output_s \in LogitVectors(n), output_e \in LogitVectors(n) :
                LET r == get_best_entity(inp, context, output_s, output_e)
                IN  /\ gb' = [called |-> TRUE, entity |-> entity,
                              context |-> context, raised |-> r.raised,
                              answer |-> r.entity, score |-> r.score]
                    /\ pp' = PostprocessFrame(output_s, output_e,
                                 inp.entity_tokens, inp.context_tokens_end,
                                 inp.input_size, r.post)
                    /\ fw' = r.post.window
    /\ op' = "get_best_entity"
    /\ UNCHANGED <<pq, ra, metric, loader, pose>>

\* the second of two calls as the state records it: the change, the logit
\* vectors handed in and the outcome r
SecondFrame(change, output_start, output_end, r) ==
    [called |-> TRUE, change |-> change,
     output_start |-> output_start, output_end |-> output_end,
     raised |-> r.raised, max_score |-> r.max_score,
     max_start |-> r.max_start, max_end |-> r.max_end,
     max_s |-> r.window.max_s, max_e |-> r.window.max_e]

\* two calls of postprocess, one after the other, with valid arguments: the
\* second call is handed the arrays as the first call left them, with the
\* change applied
CallPostprocessTwice ==
    /\ op = "none"
    /\ \E ne \in 0 .. MaxEntityTokens :
       \E n \in (ne + 4) .. MaxInput :
       \E output_start \in LogitVectors(n), output_end \in LogitVectors(n) :
       \E change \in Changes(n, ne) :
          LET entity_tokens == EntityTokens(ne)
              table == WordSpans(n - ne - 3)
              r1 == postprocess(output_start, output_end, entity_tokens,
                                table, n)
              start2 == changed(logits_after_get_score(output_start), change,
                                "start")
              end2 == changed(logits_after_get_score(output_end), change,
                              "end")
          IN  /\ pp' = PostprocessFrame(output_start, output_end,
                                        entity_tokens, table, n, r1)
              /\ fw' = r1.window
              /\ pq' = SecondFrame(change, start2, end2,
                           postprocess(start2, end2, entity_tokens, table, n))
    /\ op' = "postprocess_twice"
    /\ UNCHANGED <<gb, ra, metric, loader, pose>>

Next ==
    \/ CallFindBestEntityWindow
    \/ CallPostprocess
    \/ CallGetBestEntity
    \/ CallPostprocessTwice

Spec == Init /\ [][Next]_vars

----------------------------------------------------------------------------
(* run_analyze_entities as a process: the call up to the loop, then one     *)
(* step per field, each of which waits for the compiled model.  ra.field is *)
(* the number of fields done.  The "Time" entry of the result, a reading of *)
(* the clock, is left out.                                                  *)

\* what reaches the caller when a collaborator raises error: neither
\* get_best_entity nor run_analyze_entities has a handler
surfaced_swallowed(error) == "none"

surfaced(error) == error

\* run_analyze_entities(context) up to the first field
CallRunAnalyzeEntities ==
    /\ op = "none"
    /\ \E context \in AnalyzeContexts :
          ra' = [ra EXCEPT !.context = context,
                           !.message = context_error(context),
                           !.pc = IF context_error(context) = "none"
                                  THEN "loop" ELSE "returned"]
    /\ op' = "run_analyze_entities"
    /\ UNCHANGED <<fw, pp, pq, gb, metric, loader, pose>>

\* the loop leaving at the first field whose score reaches the threshold
after_field_break_on_hit(field, inp, r) ==
    IF r.raised # "none"
    THEN [ra EXCEPT !.pc = "raised",
                    !.invoked = Append(@, field),
                    !.tokenized = @ + 1,
                    !.input_size = inp.input_size,
                    !.failure = [by |-> "postprocess", error |-> r.raised],
                    !.raised = surfaced(r.raised)]
    ELSE [ra EXCEPT !.pc = IF ra.field + 1 = Len(template)
                                \/ reaches_threshold(r.score)
                           THEN "done" ELSE "loop",
                    !.field = @ + 1,
                    !.extract = extract_after(@, field, r.entity, r.score),
                    !.scores = Append(@, r.score),
                    !.answers = Append(@, r.entity),
                    !.invoked = Append(@, field),
                    !.tokenized = @ + 1,
                    !.input_size = inp.input_size,
                    !.results =
                        IF ra.field + 1 = Len(template)
                           \/ reaches_threshold(r.score)
                        THEN Append(@, [Extraction |->
                                 extract_after(ra.extract, field,
                                               r.entity, r.score)])
                        ELSE @]

\* the state of the process after get_best_entity returned or raised r for
\* field: the record appended when the score reaches the threshold, and the
\* result printed after the last field
after_field(field, inp, r) ==
    IF r.raised # "none"
    THEN [ra EXCEPT !.pc = "raised",
                    !.invoked = Append(@, field),
                    !.tokenized = @ + 1,
                    !.input_size = inp.input_size,
                    !.failure = [by |-> "postprocess", error |-> r.raised],
                    !.raised = surfaced(r.raised)]
    ELSE [ra EXCEPT !.pc = IF ra.field + 1 = Len(template)
                           THEN "done" ELSE "loop",
                    !.field = @ + 1,
                    !.extract = extract_after(@, field, r.entity, r.score),
                    !.scores = Append(@, r.score),
                    !.answers = Append(@, r.entity),
                    !.invoked = Append(@, field),
                    !.tokenized = @ + 1,
                    !.input_size = inp.input_size,
                    !.results =
                        IF ra.field + 1 = Len(template)
                        THEN Append(@, [Extraction |->
                                 extract_after(ra.extract, field,
                                               r.entity, r.score)])
                        ELSE @]

\* one iteration of the loop: get_best_entity for the next field with the
\* outputs the compiled model returns, the comparison with the threshold
\* and, after the last field, the printing of the result
AnalyzeField ==
    /\ op = "run_analyze_entities"
    /\ ra.pc = "loop"
    /\ LET field == template[ra.field + 1]
           inp == get_best_entity_input(entity_to_find(field), ra.context)
       IN  /\ compiled_model_accepts(inp.network_input)
           /\ \E out \in OracleOutputs(inp.input_size,
                                       Len(inp.entity_tokens) + 2) :
                 LET r == get_best_entity(inp, ra.context, out[1], out[2])
                 IN  /\ ra' = after_field(field, inp, r)
                     /\ gb' = [called |-> TRUE,
                               entity |-> entity_to_find(field),
                               context |-> ra.context, raised |-> r.raised,
                               answer |-> r.entity, score |-> r.score]
                     /\ pp' = PostprocessFrame(out[1], out[2],
                                  inp.entity_tokens, inp.context_tokens_end,
                                  inp.input_size, r.post)
                     /\ fw' = r.post.window
    /\ UNCHANGED <<op, pq, metric, loader, pose>>

\* one iteration of the loop in which the tokenizer or the compiled model
\* raises
AnalyzeFieldFails ==
    /\ op = "run_analyze_entities"
    /\ ra.pc = "loop"
    /\ LET field == template[ra.field + 1]
           inp == get_best_entity_input(entity_to_find(field), ra.context)
       IN  \E f \in Failures(inp.network_input) :
              ra' = [ra EXCEPT !.pc = "raised",
                               !.invoked = IF f.by = "compiled_model"
                                           THEN Append(@, field) ELSE @,
                               !.tokenized = @ + 1,
                               !.input_size = IF f.by = "compiled_model"
                                              THEN inp.input_size ELSE @,
                               !.failure = f,
                               !.raised = surfaced(f.error)]
    /\ UNCHANGED <<op, fw, pp, pq, gb, metric, loader, pose>>

----------------------------------------------------------------------------
(* BinaryF1 as an object: its methods in any order *)

\* metric.update(output, target)
Update ==
    /\ metric.updates < MaxUpdates
    /\ \E label \in Labels, output \in Outputs :
          metric' = [metric EXCEPT
              !.y_true = @ + update_sums(label, output).y_true,
              !.y_pred = @ + update_sums(label, output).y_pred,
              !.correct_true = @ + update_sums(label, output).correct_true,
              !.numpy = TRUE,
              !.updates = @ + 1,
              !.last = update_sums(label, output),
              !.since = [y_true |-> @.y_true
                                       + update_sums(label, output).y_true,
                         y_pred |-> @.y_pred
                                       + update_sums(label, output).y_pred,
                         correct_true |-> @.correct_true
                                 + update_sums(label, output).correct_true],
              !.since_updates = @ + 1,
              !.called = "update",
              !.read = "none",
              !.got = <<>>,
              !.avg = NoAverage]
    /\ UNCHANGED <<op, fw, pp, pq, gb, ra, loader, pose>>

\* metric.reset()
Reset ==
    /\ metric' = [BinaryF1_reset(metric) EXCEPT
                      !.since = NoSums, !.since_updates = 0,
                      !.called = "reset",
                      !.read = "none", !.got = <<>>, !.avg = NoAverage]
    /\ UNCHANGED <<op, fw, pp, pq, gb, ra, loader, pose>>

\* metric.value
Value ==
    /\ metric' = [metric EXCEPT !.called = "value", !.read = "value",
                                !.got = BinaryF1_value(metric),
                                !.avg = NoAverage]
    /\ UNCHANGED <<op, fw, pp, pq, gb, ra, loader, pose>>

\* metric.avg_value
AvgValue ==
    /\ metric' = [metric EXCEPT !.called = "avg_value", !.read = "avg_value",
                                !.got = <<>>,
                                !.avg = BinaryF1_avg_value(metric)]
    /\ UNCHANGED <<op, fw, pp, pq, gb, ra, loader, pose>>

NextMetric ==
    \/ Update
    \/ Reset
    \/ Value
    \/ AvgValue

SpecMetric == Init /\ [][NextMetric]_vars

----------------------------------------------------------------------------
(* KitsDataLoader(basedir) *)

CallKitsDataLoader ==
    /\ ~loader.called
    /\ \E BASEDIR \in Directories, basedir \in Directories :
       \E files \in [Directories -> SUBSET {MaskFiles[k] : k \in 1 .. Len(MaskFiles)}] :
          loader' = [called |-> TRUE, BASEDIR |-> BASEDIR,
                     basedir |-> basedir, files |-> files,
                     raised |-> KitsDataLoader_init(BASEDIR, basedir, files).raised,
                     self_basedir |->
                         KitsDataLoader_init(BASEDIR, basedir, files).self_basedir,
                     dataset |->
                         KitsDataLoader_init(BASEDIR, basedir, files).dataset]
    /\ UNCHANGED <<op, fw, pp, pq, gb, ra, metric, pose>>

NextLoader == CallKitsDataLoader

SpecLoader == Init /\ [][NextLoader]_vars

----------------------------------------------------------------------------
(* run_pose_estimation as a process: the call, the construction of the      *)
(* player, its start, one step per loop iteration, the except clauses and   *)
(* the finally clause.  pose.frames counts the durations appended.          *)

\* run_pose_estimation(source, flip, use_popup, skip_first_frames) up to the
\* try statement
CallRunPoseEstimation ==
    /\ pose.pc = "idle"
    /\ \E use_popup \in BOOLEAN, pace \in Paces :
          pose' = [pose EXCEPT !.pc = "construct",
                               !.use_popup = use_popup,
                               !.pace = pace,
                               !.player = "None"]
    /\ UNCHANGED <<op, fw, pp, pq, gb, ra, metric, loader>>

\* the state after a statement of the try block raised exc
raised_in_try(where, exc) ==
    [pose EXCEPT !.pc = "except", !.exc = exc, !.failed = exc,
                 !.where = where, !.completed = FALSE]

\* player = utils.VideoPlayer(...): the player is assigned, or the
\* constructor raises and player stays None
ConstructPlayer ==
    /\ pose.pc = "construct"
    /\ \/ pose' = [pose EXCEPT !.pc = "start", !.player = "VideoPlayer"]
       \/ \E exc \in Exceptions : pose' = raised_in_try("construct", exc)
    /\ UNCHANGED <<op, fw, pp, pq, gb, ra, metric, loader>>

\* player.start(), the window in popup mode and the empty deque; any of the
\* calls may raise
StartPlayer ==
    /\ pose.pc = "start"
    /\ \/ pose' = [pose EXCEPT !.pc = "loop", !.processing_times = <<>>]
       \/ \E exc \in Exceptions : pose' = raised_in_try("start", exc)
    /\ UNCHANGED <<op, fw, pp, pq, gb, ra, metric, loader>>

\* the loop body up to the display for the next frame: the deque and the
\* displayed mean after it
frame_processed ==
    [pose EXCEPT !.frames = @ + 1,
                 !.processing_times =
                     processing_times_after(@, Duration(pose.frames + 1,
                                                        pose.pace)),
                 !.processing_time =
                     mean_ms(processing_times_after(pose.processing_times,
                                 Duration(pose.frames + 1, pose.pace)))]

\* one iteration of the loop that reaches its end: a frame is processed and
\* shown; in popup mode ESC leaves the loop
ProcessFrame ==
    /\ pose.pc = "loop"
    /\ pose.frames < MaxFrames
    /\ \E key \in (IF pose.use_popup THEN Keys ELSE {-1}) :
          pose' = [frame_processed EXCEPT
                      !.completed = TRUE,
                      !.pc = IF pose.use_popup /\ key = 27
                             THEN "finally" ELSE "loop"]
    /\ UNCHANGED <<op, fw, pp, pq, gb, ra, metric, loader>>

\* player.next() returns None
SourceEnded ==
    /\ pose.pc = "loop"
    /\ pose' = [pose EXCEPT !.pc = "finally", !.printed = "Source ended",
                            !.completed = FALSE]
    /\ UNCHANGED <<op, fw, pp, pq, gb, ra, metric, loader>>

\* an iteration in which a call raises: player.next(), the inference or the
\* decoding before the duration is appended, or the display after the mean
\* was computed
FrameRaises ==
    /\ pose.pc = "loop"
    /\ \E exc \in Exceptions :
          \/ pose' = raised_in_try("loop", exc)
          \/ /\ pose.frames < MaxFrames
             /\ pose' = [frame_processed EXCEPT
                            !.pc = "except", !.exc = exc, !.failed = exc,
                            !.where = "loop", !.completed = FALSE]
    /\ UNCHANGED <<op, fw, pp, pq, gb, ra, metric, loader>>

\* the except clauses: KeyboardInterrupt and RuntimeError are printed and
\* end there, any other exception stays pending
Except ==
    /\ pose.pc = "except"
    /\ pose' = [pose EXCEPT
                   !.pc = "finally",
                   !.printed = IF except_prints(pose.exc) # "none"
                               THEN except_prints(pose.exc) ELSE @,
                   !.exc = IF except_prints(pose.exc) # "none"
                           THEN "none" ELSE @]
    /\ UNCHANGED <<op, fw, pp, pq, gb, ra, metric, loader>>

\* the finally clause, after which the function returns or the pending
\* exception propagates
Finally ==
    /\ pose.pc = "finally"
    /\ pose' = [pose EXCEPT
                   !.pc = "finished",
                   !.stop_calls = @ + finally_stop_calls(pose.player),
                   !.windows_destroyed = IF pose.use_popup THEN @ + 1 ELSE @,
                   !.raised = pose.exc]
    /\ UNCHANGED <<op, fw, pp, pq, gb, ra, metric, loader>>

NextPose ==
    \/ CallRunPoseEstimation
    \/ ConstructPlayer
    \/ StartPlayer
    \/ ProcessFrame
    \/ SourceEnded
    \/ FrameRaises
    \/ Except
    \/ Finally

SpecPose == Init /\ [][NextPose]_vars

NextAnalyze ==
    \/ CallRunAnalyzeEntities
    \/ AnalyzeField
    \/ AnalyzeFieldFails

SpecAnalyze == Init /\ [][NextAnalyze]_vars

----------------------------------------------------------------------------
(* Vocabulary of the properties *)

\* the last call of find_best_entity_window had valid arguments: score
\* vectors of equal length and a non-empty context window inside them
ValidWindow ==
    /\ fw.called
    /\ Len(fw.start_score.num) = Len(fw.end_score.num)
    /\ 0 <= fw.context_start_idx
    /\ fw.context_start_idx < fw.context_end_idx
    /\ fw.context_end_idx <= Len(fw.start_score.num)

WindowLen == fw.context_end_idx - fw.context_start_idx

\* P(start = i) * P(end = j) for context-local i, j, as a numerator over the
\* denominator fw.start_score.den * fw.end_score.den
Product(i, j) ==
    fw.start_score.num[fw.context_start_idx + i + 1]
        * fw.end_score.num[fw.context_start_idx + j + 1]

\* all context-local pairs, and the candidate pairs 0 <= j - i <= 16
Pairs == (0 .. (WindowLen - 1)) \X (0 .. (WindowLen - 1))

Candidates == {c \in Pairs : c[1] <= c[2] /\ c[2] - c[1] <= 16}

\* the last call of postprocess had valid arguments: one start and one end
\* logit per input position, and one table entry per context token, of which
\* there is at least one
ValidPostprocess ==
    /\ pp.called
    /\ Len(pp.output_start) = pp.input_size
    /\ Len(pp.output_end) = pp.input_size
    /\ Len(pp.context_tokens_start_end)
          = pp.input_size - Len(pp.entity_tokens) - 3
    /\ Len(pp.context_tokens_start_end) >= 1

----------------------------------------------------------------------------
(* Properties *)

\* C1: for valid arguments find_best_entity_window returns a candidate pair
\* (0 <= j - i <= 16), the score returned is the product of that pair, and no
\* candidate pair has a larger product.
C1_ScoreIsBandMaximum ==
    ValidWindow =>
        /\ fw.raised = "none"
        /\ <<fw.max_s, fw.max_e>> \in Candidates
        /\ fw.max_score.num = Product(fw.max_s, fw.max_e)
        /\ fw.max_score.den = fw.start_score.den * fw.end_score.den
        /\ \A c \in Candidates : Product(c[1], c[2]) <= fw.max_score.num

\* a call with positive best score and a candidate of a smaller product
C1_Witness ==
    /\ ValidWindow
    /\ fw.raised = "none"
    /\ fw.max_score.num > 0
    /\ fw.max_s # fw.max_e
    /\ \E c \in Candidates : Product(c[1], c[2]) < fw.max_score.num

\* C2: for valid arguments the pair returned is ordered and inside the
\* context window, 0 <= max_s <= max_e < context_end_idx - context_start_idx,
\* also when every product is zero.
C2_PairOrderedInsideWindow ==
    ValidWindow =>
        /\ fw.raised = "none"
        /\ 0 <= fw.max_s
        /\ fw.max_s <= fw.max_e
        /\ fw.max_e < fw.context_end_idx - fw.context_start_idx

\* a call whose window has several tokens and whose products are all zero
C2_Witness ==
    /\ ValidWindow
    /\ fw.raised = "none"
    /\ WindowLen >= 2
    /\ \A c \in Pairs : Product(c[1], c[2]) = 0

\* C3: for valid arguments max_e - max_s <= 16; when the largest product of
\* the whole window-by-window matrix is only at pairs with j - i > 16, the
\* pair returned is the best pair with 0 <= j - i <= 16.
C3_NeverBeyondBand ==
    ValidWindow =>
        /\ fw.max_e - fw.max_s <= 16
        /\ (\E o \in Pairs :
               /\ o[2] - o[1] > 16
               /\ \A c \in Candidates : Product(c[1], c[2]) < Product(o[1], o[2]))
           => /\ <<fw.max_s, fw.max_e>> \in Candidates
              /\ \A c \in Candidates :
                    Product(c[1], c[2]) <= Product(fw.max_s, fw.max_e)

\* a call where a pair with j - i > 16 beats every candidate pair, and the
\* best candidate pair has a positive product
C3_Witness ==
    /\ ValidWindow
    /\ fw.raised = "none"
    /\ fw.max_score.num > 0
    /\ \E o \in Pairs :
          /\ o[2] - o[1] > 16
          /\ \A c \in Candidates : Product(c[1], c[2]) < Product(o[1], o[2])

\* C4: the answer selected covers at most 16 tokens: max_e - max_s + 1 <= 16.
C4_AtMostSixteenTokens ==
    (ValidWindow /\ fw.raised = "none") => fw.max_e - fw.max_s + 1 <= 16

\* C5: among the candidate pairs of the largest product the pair returned has
\* the lowest row-major index i * context_len + j.
C5_LowestFlatIndexWins ==
    ValidWindow =>
        /\ fw.raised = "none"
        /\ \A c \in Candidates :
              Product(c[1], c[2]) = Product(fw.max_s, fw.max_e)
                 => fw.max_s * WindowLen + fw.max_e <= c[1] * WindowLen + c[2]

\* a call where a second candidate pair, in a later row, has the same
\* positive product as the pair returned
C5_Witness ==
    /\ ValidWindow
    /\ fw.raised = "none"
    /\ fw.max_score.num > 0
    /\ \E c \in Candidates :
          /\ c[1] > fw.max_s
          /\ Product(c[1], c[2]) = fw.max_score.num

C7_OffsetsInsideContext ==
    (gb.called /\ gb.raised = "none") =>
        /\ 0 <= pp.max_start
        /\ pp.max_start <= pp.max_end
        /\ pp.max_end <= Len(gb.context)

\* the token-span entry of every model-input position: the entries of the
\* table laid out as prepare_input lays out the context tokens
PositionSpans ==
    prepare_input([k \in 1 .. Len(pp.entity_tokens) |-> <<-1, -1>>],
                  pp.context_tokens_start_end).input_ids

\* C8: for valid arguments the lookups are inside the token-span table;
\* max_start is the start offset of the context token at model-input position
\* max_s + context_start_idx, max_end the end offset of the one at position
\* max_e + context_start_idx.
C8_OffsetsOfSelectedTokens ==
    ValidPostprocess =>
        /\ pp.raised = "none"
        /\ fw.max_s < Len(pp.context_tokens_start_end)
        /\ fw.max_e < Len(pp.context_tokens_start_end)
        /\ pp.max_start = PositionSpans[fw.max_s + fw.context_start_idx + 1][1]
        /\ pp.max_end = PositionSpans[fw.max_e + fw.context_start_idx + 1][2]

\* a call that selects a span of two different context tokens, the first of
\* them not the first context token
C8_Witness ==
    /\ ValidPostprocess
    /\ pp.raised = "none"
    /\ 0 < fw.max_s
    /\ fw.max_s < fw.max_e

\* the sum of exp(logit) over every position of a logit vector
RECURSIVE SumExp(_, _)
SumExp(logits, k) ==
    IF k = 0 THEN 0 ELSE exp(logits[k]) + SumExp(logits, k - 1)

\* the sum of the numerators of the context-window scores
RECURSIVE WindowSum(_, _)
WindowSum(num, k) ==
    IF k <= fw.context_start_idx THEN 0
    ELSE num[k] + WindowSum(num, k - 1)

\* C9: the scores are normalised over the full logit vector: score i is
\* exp(logit i) over the sum of exp over every input position, so the scores
\* of the context window sum to at most 1, and to less than 1 when there is
\* a position outside the window.
C9_NormalisedOverFullVector ==
    ValidPostprocess =>
        /\ fw.start_score.den = SumExp(pp.output_start, Len(pp.output_start))
        /\ fw.end_score.den = SumExp(pp.output_end, Len(pp.output_end))
        /\ \A k \in 1 .. pp.input_size :
              /\ fw.start_score.num[k] = exp(pp.output_start[k])
              /\ fw.end_score.num[k] = exp(pp.output_end[k])
        /\ WindowSum(fw.start_score.num, fw.context_end_idx) <= fw.start_score.den
        /\ WindowSum(fw.end_score.num, fw.context_end_idx) <= fw.end_score.den
        /\ pp.input_size > WindowLen =>
              /\ WindowSum(fw.start_score.num, fw.context_end_idx)
                    < fw.start_score.den
              /\ WindowSum(fw.end_score.num, fw.context_end_idx)
                    < fw.end_score.den

\* a call whose largest start logit is at a position outside the context
\* window
C9_Witness ==
    /\ ValidPostprocess
    /\ pp.raised = "none"
    /\ \E k \in 1 .. fw.context_start_idx : pp.output_start[k] > 0
    /\ WindowLen >= 2

\* the arguments of the last call of postprocess are invalid: logit vectors
\* of different lengths, or an empty or reversed context window, or a
\* context index outside [0, length]
InvalidPostprocess ==
    /\ pp.called
    /\ \/ Len(pp.output_start) # Len(pp.output_end)
       \/ fw.context_start_idx >= fw.context_end_idx
       \/ fw.context_start_idx \notin 0 .. Len(pp.output_start)
       \/ fw.context_end_idx \notin 0 .. Len(pp.output_start)

\* C10: span selection fails, and returns no span, whenever its arguments
\* are invalid.
C10_InvalidInputRaises ==
    InvalidPostprocess => pp.raised # "none"

\* What the code does with such arguments: numpy raises ValueError exactly
\* when the context window is empty or reversed or context_end_idx exceeds
\* the length of the start or of the end logit vector; logit vectors of
\* different lengths that both reach context_end_idx are accepted.
WindowErrorsExactly ==
    pp.called =>
        (pp.raised = "ValueError"
            <=> \/ fw.context_start_idx >= fw.context_end_idx
                \/ fw.context_end_idx > Len(pp.output_start)
                \/ fw.context_end_idx > Len(pp.output_end))

\* the arguments of the last call of find_best_entity_window are valid but
\* for the size of the window: score vectors of equal length and a context
\* window, possibly empty, inside them
WindowInsideScores ==
    /\ fw.called
    /\ Len(fw.start_score.num) = Len(fw.end_score.num)
    /\ 0 <= fw.context_start_idx
    /\ fw.context_start_idx <= fw.context_end_idx
    /\ fw.context_end_idx <= Len(fw.start_score.num)

\* C11: span selection fails for want of a candidate (numpy's ValueError for
\* the argmax of an empty matrix, the code's form of NoValidSpanError) only
\* when the context window is empty; for a non-empty window it raises nothing
\* and returns a span on or above the diagonal inside the window.
C11_FailsOnlyOnEmptyWindow ==
    WindowInsideScores =>
        /\ fw.raised # "none" <=> WindowLen = 0
        /\ fw.raised # "none" => fw.raised = "ValueError"
        /\ WindowLen > 0 =>
              /\ 0 <= fw.max_s
              /\ fw.max_s <= fw.max_e
              /\ fw.max_e < WindowLen

\* a call with an empty context window inside non-empty score vectors
C11_Witness ==
    /\ WindowInsideScores
    /\ WindowLen = 0
    /\ Len(fw.start_score.num) > 0
    /\ fw.raised = "ValueError"

\* C15: when the start logit of the position selected as the start of the
\* span is raised and every other logit kept, the score returned by the
\* second call is not lower than the score returned by the first.
C15_RaisedStartLogitKeepsScore ==
    (pq.called /\ pq.change.kind = "raise_start"
        /\ pq.change.at = fw.max_s + fw.context_start_idx) =>
        /\ pp.raised = "none"
        /\ pq.raised = "none"
        /\ pq.max_score.num * pp.max_score.den
              >= pp.max_score.num * pq.max_score.den

\* the selected start logit is raised in a window of several tokens and the
\* score grows
C15_Witness ==
    /\ pq.called
    /\ pq.change.kind = "raise_start"
    /\ pq.change.at = fw.max_s + fw.context_start_idx
    /\ WindowLen >= 2
    /\ pq.max_score.num * pp.max_score.den > pp.max_score.num * pq.max_score.den

\* C16: when the context window holds exactly one token the pair returned is
\* (0, 0), whatever the scores.
C16_SingleTokenWindow ==
    (WindowInsideScores /\ WindowLen = 1) =>
        /\ fw.raised = "none"
        /\ fw.max_s = 0
        /\ fw.max_e = 0
        /\ fw.max_score.num = Product(0, 0)

\* a one-token window inside longer score vectors whose largest scores are
\* outside the window
C16_Witness ==
    /\ WindowInsideScores
    /\ WindowLen = 1
    /\ Len(fw.start_score.num) >= 2
    /\ \E k \in 1 .. Len(fw.start_score.num) :
          fw.start_score.num[k] > fw.start_score.num[fw.context_start_idx + 1]

----------------------------------------------------------------------------
(* Properties of run_analyze_entities *)

\* the fields (as positions of template) done so far whose score is at
\* least 0.4 = 2/5
FieldsAtThreshold ==
    {k \in 1 .. Len(ra.scores) : 5 * ra.scores[k].num >= 2 * ra.scores[k].den}

\* the position of a field in template
FieldIndex(field) == CHOOSE k \in 1 .. Len(template) : template[k] = field

C13_RecordsInTemplateOrder ==
    /\ \A j \in 1 .. Len(ra.extract) :
          /\ \E k \in 1 .. Len(ra.scores) : template[k] = ra.extract[j].Type
          /\ ra.extract[j].Entity = ra.answers[FieldIndex(ra.extract[j].Type)]
          /\ ra.extract[j].Score
                = format_2f(ra.scores[FieldIndex(ra.extract[j].Type)])
    /\ \A i, j \in 1 .. Len(ra.extract) :
          i < j => FieldIndex(ra.extract[i].Type) < FieldIndex(ra.extract[j].Type)
    /\ ra.pc = "done" =>
          ra.results = <<[Extraction |-> ra.extract]>>

\* a finished run with two records of different answers, the first field
\* omitted
C13_Witness ==
    /\ ra.pc = "done"
    /\ Len(ra.extract) >= 2
    /\ ra.extract[1].Type # template[1]
    /\ ra.extract[1].Entity # ra.extract[2].Entity

\* C14: an error the tokenizer or the compiled model raises during a field
\* reaches the caller as it is, ends the run, and no extraction result is
\* printed.
C14_FailureSurfacedUnchanged ==
    /\ ra.failure.by # "none" =>
          /\ ra.pc = "raised"
          /\ ra.raised = ra.failure.error
          /\ ra.results = <<>>
    /\ ra.pc = "raised" => ra.failure.by # "none"
    /\ ra.pc = "done" => ra.raised = "none"

\* the compiled model raises after a field was kept
C14_Witness ==
    /\ ra.pc = "raised"
    /\ ra.failure.by = "compiled_model"
    /\ Len(ra.extract) >= 1
    /\ ra.raised = "InferenceError"

\* C18: in every call of postprocess made for a context that
\* run_analyze_entities accepts,
\* 0 <= context_start_idx < context_end_idx <= len(logit vectors).
C18_WindowInsideLogits ==
    (op = "run_analyze_entities" /\ pp.called) =>
        /\ 0 <= fw.context_start_idx
        /\ fw.context_start_idx < fw.context_end_idx
        /\ fw.context_end_idx <= Len(pp.output_start)
        /\ fw.context_end_idx <= Len(pp.output_end)

\* C19: every context that run_analyze_entities accepts gives the compiled
\* model an input of at most 384 tokens.
C19_InputWithinModelBound ==
    ra.invoked # <<>> => ra.input_size <= 384

----------------------------------------------------------------------------
(* Properties of BinaryF1 *)

\* C20: value, read after an update, is the metric of that update's output
\* and target: both entries 0 only when the F1 score of the update is 0.
C20_ValueReflectsLastUpdate ==
    (metric.read = "value" /\ metric.updates > 0
        /\ metric.last.correct_true > 0) =>
        metric.got # <<0, 0>>

\* C21: after one or more updates since construction or the last reset,
\* avg_value returns a number, equal to 2 * correct_true / (y_true + y_pred)
\* and between 0 and 1.
C21_AvgValueDefined ==
    (metric.read = "avg_value" /\ metric.since_updates >= 1) =>
        /\ metric.avg.raised = "none"
        /\ metric.avg.f1.kind = "number"
        /\ metric.avg.f1.den > 0
        /\ metric.avg.f1.num * (metric.y_true + metric.y_pred)
              = 2 * metric.correct_true * metric.avg.f1.den
        /\ 0 <= metric.avg.f1.num
        /\ metric.avg.f1.num <= metric.avg.f1.den

\* C22: the counters are the sums over the updates made since construction
\* or the last reset, whatever was done before; right after reset all three
\* are 0 as after construction.
C22_ResetRestoresInitialValues ==
    /\ metric.y_true = metric.since.y_true
    /\ metric.y_pred = metric.since.y_pred
    /\ metric.correct_true = metric.since.correct_true
    /\ metric.called = "reset" =>
          /\ metric.y_true = BinaryF1_init.y_true
          /\ metric.y_pred = BinaryF1_init.y_pred
          /\ metric.correct_true = BinaryF1_init.correct_true
          /\ metric.numpy = BinaryF1_init.numpy

\* an update after a reset that followed an update with correct pixels
C22_Witness ==
    /\ metric.called = "update"
    /\ metric.updates >= 2
    /\ metric.since_updates = 1
    /\ metric.correct_true > 0
    /\ metric.correct_true = metric.last.correct_true

----------------------------------------------------------------------------
(* Properties of KitsDataLoader *)

\* C23: KitsDataLoader(basedir) raises ValueError exactly when there is no
\* mask under basedir, and otherwise holds exactly the masks of the
\* validation cases under basedir.
C23_DatasetFromBasedirArgument ==
    loader.called =>
        /\ loader.raised = "ValueError" <=> loader.files[loader.basedir] = {}
        /\ loader.raised = "none" =>
              {loader.dataset[k] : k \in 1 .. Len(loader.dataset)}
                 = {m \in loader.files[loader.basedir] : m.case \in val_cases}

----------------------------------------------------------------------------
(* Properties of run_pose_estimation *)

\* the number of entries the deque should hold after pose.frames frames
Held == IF pose.frames < 200 THEN pose.frames ELSE 200

\* the sum of the durations of frames lo .. hi
RECURSIVE DurationSum(_, _)
DurationSum(lo, hi) ==
    IF lo > hi THEN 0
    ELSE IF lo = hi THEN Duration(lo, pose.pace)
    ELSE DurationSum(lo, (lo + hi) \div 2)
            + DurationSum((lo + hi) \div 2 + 1, hi)

\* C27: at the end of every loop iteration processing_times holds at most
\* 200 entries, the durations of the last min(n, 200) of the n frames
\* processed, oldest first, and the displayed mean is 1000 times their sum
\* over their number.
C27_LastTwoHundredDurations ==
    pose.completed =>
        /\ Len(pose.processing_times) <= 200
        /\ Len(pose.processing_times) = Held
        /\ \A i \in 1 .. Held :
              pose.processing_times[i]
                 = Duration(pose.frames - Held + i, pose.pace)
        /\ pose.processing_time.den = Held
        /\ pose.processing_time.num
              = 1000 * DurationSum(pose.frames - Held + 1, pose.frames)

\* the end of iteration 202: the first two durations were let go
C27_Witness ==
    /\ pose.completed
    /\ pose.frames = 202
    /\ Len(pose.processing_times) = 200
    /\ pose.processing_times[1] = Duration(3, pose.pace)
    /\ pose.processing_times[1] # Duration(1, pose.pace)

====
